---- MODULE Spec2Model ----
(***************************************************************************)
(* Model of dblp.py (DBLPY): the title normalisation pipeline, the edit    *)
(* distance _levenshtein, DBLPResult.search_by_title, DBLPSearch._is_target*)
(* and the query loop of DBLPSearch.search.                                *)
(*                                                                         *)
(* Text is modelled as Python 2 holds it: a `str` is a sequence of bytes   *)
(* (0..255), a `unicode` is a sequence of code points.  A client performs  *)
(* one library call at a time; `op`, `args` and `ret` record the call, and *)
(* the remaining variables are the locals of DBLPSearch.search, which is   *)
(* modelled step by step because it issues network queries between steps.  *)
(***************************************************************************)
EXTENDS Integers, Sequences, FiniteSets, TLC

VARIABLES op, args, ret, pc, remote, ai, ki, publications, queries

vars == <<op, args, ret, pc, remote, ai, ki, publications, queries>>

(***************************************************************************)
(* Bounds of the model.                                                    *)
(***************************************************************************)
MaxLen == 3        \* longest string handed to _levenshtein directly
MaxNormLen == 2    \* longest text (in code points) handed to the normaliser
MaxPubs == 2       \* longest publication list of a DBLPResult
MaxAuthors == 2    \* most authors the author query returns
MaxKeys == 2       \* most publication keys per author

(***************************************************************************)
(* Sequences over a set, up to a length.                                   *)
(***************************************************************************)
SeqsUpTo(S, n) == UNION {[1..k -> S] : k \in 0..n}

RECURSIVE Flatten(_)
Flatten(ss) == IF ss = <<>> THEN <<>> ELSE Head(ss) \o Flatten(Tail(ss))

(***************************************************************************)
(* Code points used by the model.                                          *)
(*   97 'a'  98 'b'  99 'c'  101 'e'  65 'A'  69 'E'  49 '1'  32 ' '       *)
(*   201 U+00C9 (E acute)   233 U+00E9 (e acute)   769 U+0301 (combining   *)
(*   acute)   8490 U+212A (KELVIN SIGN)   248 U+00F8 (o with stroke)       *)
(***************************************************************************)
LevChars == {97, 98, 99}
NormChars == {97, 65, 69, 49, 32, 201, 233, 769, 8490, 248}

(***************************************************************************)
(* _u8: unicode -> str, the UTF-8 encoding of each code point.             *)
(***************************************************************************)
Utf8Char(cp) ==
  IF cp < 128 THEN <<cp>>
  ELSE IF cp < 2048 THEN <<192 + (cp \div 64), 128 + (cp % 64)>>
  ELSE <<224 + (cp \div 4096), 128 + ((cp \div 64) % 64), 128 + (cp % 64)>>

_u8(string) == Flatten([i \in 1..Len(string) |-> Utf8Char(string[i])])

(***************************************************************************)
(* _un: str -> unicode, UTF-8 decoding.  The library only decodes what     *)
(* _u8 or a UTF-8 command line produced, so the bytes are well formed.     *)
(***************************************************************************)
RECURSIVE _un(_)
_un(string) ==
  IF string = <<>> THEN <<>>
  ELSE LET b == string[1] IN
    IF b < 128 THEN <<b>> \o _un(SubSeq(string, 2, Len(string)))
    ELSE IF b < 224
      THEN <<(b - 192) * 64 + (string[2] - 128)>>
             \o _un(SubSeq(string, 3, Len(string)))
      ELSE <<(b - 224) * 4096 + (string[2] - 128) * 64 + (string[3] - 128)>>
             \o _un(SubSeq(string, 4, Len(string)))

(***************************************************************************)
(* str.lower() of Python 2 on a byte string: only the bytes 'A'..'Z' are   *)
(* changed; the bytes of a multi-byte UTF-8 character are all >= 128 and   *)
(* stay as they are.                                                       *)
(***************************************************************************)
lower(string) ==
  [i \in 1..Len(string) |->
     IF string[i] \in 65..90 THEN string[i] + 32 ELSE string[i]]

(***************************************************************************)
(* unicodedata.normalize('NFKD', .) on the code points of the model.       *)
(***************************************************************************)
NFKDChar(cp) ==
  CASE cp = 201  -> <<69, 769>>
    [] cp = 233  -> <<101, 769>>
    [] cp = 8490 -> <<75>>
    [] OTHER     -> <<cp>>

NFKD(data) == Flatten([i \in 1..Len(data) |-> NFKDChar(data[i])])

ascii_letters == (97..122) \cup (65..90)

_remove_accents(data) == SelectSeq(NFKD(data), LAMBDA x : x \in ascii_letters)

(***************************************************************************)
(* The normalisation every comparison applies to a title (a str):          *)
(* _remove_accents(_un(title.lower())).                                    *)
(***************************************************************************)
NormTitle(title) == _remove_accents(_un(lower(title)))

(***************************************************************************)
(* _levenshtein.  d is the dictionary of the code, keyed by <<i, j>> with  *)
(* i, j from -1; strings are 0-based in the code and 1-based here.         *)
(***************************************************************************)
LevInit(lenstr1, lenstr2) ==
  [p \in ((-1..lenstr1) \X {-1}) \cup ({-1} \X (-1..lenstr2)) |->
     IF p[2] = -1 THEN p[1] + 1 ELSE p[2] + 1]

Min2(x, y) == IF x < y THEN x ELSE y

Min3(x, y, z) == Min2(x, Min2(y, z))

LevCell_NoTransposition(d, s1, s2, i, j) ==
  LET cost == IF s1[i + 1] = s2[j + 1] THEN 0 ELSE 1
  IN  Min3(d[<<i - 1, j>>] + 1, d[<<i, j - 1>>] + 1, d[<<i - 1, j - 1>>] + cost)

LevCell_DeletionCost2(d, s1, s2, i, j) ==
  LET cost == IF s1[i + 1] = s2[j + 1] THEN 0 ELSE 1
      m == Min3(d[<<i - 1, j>>] + 2,
                d[<<i, j - 1>>] + 1,
                d[<<i - 1, j - 1>>] + cost)
  IN  IF i /= 0 /\ j /= 0 /\ s1[i + 1] = s2[j] /\ s1[i] = s2[j + 1]
        THEN Min2(m, d[<<i - 2, j - 2>>] + cost)
        ELSE m

LevCell(d, s1, s2, i, j) ==
  LET cost == IF s1[i + 1] = s2[j + 1] THEN 0 ELSE 1
      m == Min3(d[<<i - 1, j>>] + 1,          \* deletion
                d[<<i, j - 1>>] + 1,          \* insertion
                d[<<i - 1, j - 1>>] + cost)   \* substitution
  IN  IF i /= 0 /\ j /= 0 /\ s1[i + 1] = s2[j] /\ s1[i] = s2[j + 1]
        THEN Min2(m, d[<<i - 2, j - 2>>] + cost)   \* transposition
        ELSE m

\* the two nested loops, k = i * lenstr2 + j
RECURSIVE LevLoop(_, _, _, _)
LevLoop(d, s1, s2, k) ==
  IF k >= Len(s1) * Len(s2) THEN d
  ELSE LET i == k \div Len(s2)
           j == k % Len(s2)
       IN  LevLoop((<<i, j>> :> LevCell(d, s1, s2, i, j)) @@ d, s1, s2, k + 1)

_levenshtein(s1, s2) ==
  LevLoop(LevInit(Len(s1), Len(s2)), s1, s2, 0)[<<Len(s1) - 1, Len(s2) - 1>>]

(***************************************************************************)
(* Values a call returns.  kind is "None", "True", "False", "int", "str",  *)
(* "Publication" (n = its position in the list searched), "DBLPResult"     *)
(* (s = its publications), the name of the exception raised, or "pending". *)
(***************************************************************************)
Ret(kind, n, s) == [kind |-> kind, n |-> n, s |-> s]

RetNone == Ret("None", 0, <<>>)

RetBool(b) == Ret(IF b THEN "True" ELSE "False", 0, <<>>)

RetRaise(exc) == Ret(exc, 0, <<>>)

Publication(pkey, title) == [pkey |-> pkey, title |-> title]

(***************************************************************************)
(* Character error rates are floats in the code; here a rate is the exact  *)
(* fraction <<numerator, denominator>> and threshold is given in           *)
(* hundredths (20 is the default 0.2).                                     *)
(***************************************************************************)
Thresholds == {0, 20, 50, 100}
DefaultThreshold == 20

CerLess_OrEqual(x, y) == x[1] * y[2] <= y[1] * x[2]

CerLess(x, y) == x[1] * y[2] < y[1] * x[2]

EarlyAccept == <<1, 100>>

InitialMinCer == <<100, 1>>

(***************************************************************************)
(* DBLPResult.search_by_title: the loop of the exact branch ...            *)
(***************************************************************************)
RECURSIVE ExactScan_Last(_, _, _)
ExactScan_Last(pubs, t2, i) ==
  IF i > Len(pubs) THEN RetNone
  ELSE LET rest == ExactScan_Last(pubs, t2, i + 1) IN
       IF rest.kind = "Publication" THEN rest
       ELSE IF NormTitle(pubs[i].title) = t2 THEN Ret("Publication", i, <<>>)
       ELSE RetNone

RECURSIVE ExactScan(_, _, _)
ExactScan(pubs, t2, i) ==
  IF i > Len(pubs) THEN RetNone
  ELSE IF NormTitle(pubs[i].title) = t2 THEN Ret("Publication", i, <<>>)
  ELSE ExactScan(pubs, t2, i + 1)

(***************************************************************************)
(* ... and the loop of the approximate branch; best = 0 stands for None.   *)
(***************************************************************************)
RECURSIVE LevScan(_, _, _, _, _, _)
LevScan(pubs, t2, threshold, i, min_cer, best) ==
  IF i > Len(pubs)
    THEN IF CerLess(min_cer, <<threshold, 100>>)
           THEN (IF best = 0 THEN RetNone ELSE Ret("Publication", best, <<>>))
           ELSE RetNone
    ELSE LET t1 == NormTitle(pubs[i].title) IN
      IF Len(t1) = 0 THEN RetRaise("ZeroDivisionError")
      ELSE LET cer == <<_levenshtein(t1, t2), Len(t1)>> IN
        IF CerLess(cer, EarlyAccept) THEN Ret("Publication", i, <<>>)
        ELSE IF CerLess(cer, min_cer)
          THEN LevScan(pubs, t2, threshold, i + 1, cer, i)
          ELSE LevScan(pubs, t2, threshold, i + 1, min_cer, best)

search_by_title(pubs, title, lev, threshold) ==
  LET t2 == NormTitle(title) IN
  IF ~lev THEN ExactScan(pubs, t2, 1)
  ELSE LevScan(pubs, t2, threshold, 1, InitialMinCer, 0)

(***************************************************************************)
(* DBLPSearch._is_target                                                   *)
(***************************************************************************)
_is_target_OrEqual(title1, title2, lev, threshold) ==
  LET t1 == NormTitle(title1)
      t2 == NormTitle(title2)
  IN  IF ~lev THEN RetBool(t1 = t2)
      ELSE IF Len(t1) = 0 THEN RetRaise("ZeroDivisionError")
      ELSE RetBool(CerLess_OrEqual(<<_levenshtein(t1, t2), Len(t1)>>,
                                   <<threshold, 100>>))

_is_target_Raw(title1, title2, lev, threshold) ==
  LET t1 == NormTitle(title1)
      t2 == NormTitle(title2)
  IN  IF ~lev THEN RetBool(title1 = title2)
      ELSE IF Len(t1) = 0 THEN RetRaise("ZeroDivisionError")
      ELSE RetBool(CerLess(<<_levenshtein(t1, t2), Len(t1)>>, <<threshold, 100>>))

_is_target(title1, title2, lev, threshold) ==
  LET t1 == NormTitle(title1)
      t2 == NormTitle(title2)
  IN  IF ~lev THEN RetBool(t1 = t2)
      ELSE IF Len(t1) = 0 THEN RetRaise("ZeroDivisionError")
      ELSE RetBool(CerLess(<<_levenshtein(t1, t2), Len(t1)>>, <<threshold, 100>>))

(***************************************************************************)
(* Inputs of the calls.                                                    *)
(***************************************************************************)
LevStrings == SeqsUpTo(LevChars, MaxLen)
NormTexts == SeqsUpTo(NormChars, MaxNormLen)
\* titles as text: "", "1", "A", "\u00c9", "A\u00c9", "\u00c9A", "A1\u00c9"
TitleTexts ==
  {<<>>, <<49>>, <<65>>, <<201>>, <<65, 201>>, <<201, 65>>, <<65, 49, 201>>}
Titles == {_u8(t) : t \in TitleTexts}
PubLists ==
  {[i \in 1..Len(ts) |-> Publication(i, ts[i])] : ts \in SeqsUpTo(Titles, MaxPubs)}
\* what the DBLP server holds: the title text of every publication key of
\* every author the author query returns, as unicode text of the XML
RemoteTitles == {<<65, 201>>, <<49>>}
\* the titles search is asked for: "A1\u00c9", "\u00c9A", "A"
SearchTargets == {<<65, 49, 201>>, <<201, 65>>, <<65>>}
Remotes == SeqsUpTo(SeqsUpTo(RemoteTitles, MaxKeys), MaxAuthors)
Modes == {<<lev, th>> \in BOOLEAN \X Thresholds : lev \/ th = DefaultThreshold}

NoArgs == [none |-> TRUE]

SearchIdle ==
  /\ pc' = "idle"
  /\ remote' = <<>>
  /\ ai' = 0
  /\ ki' = 0
  /\ publications' = <<>>
  /\ queries' = <<>>

\* the client is between calls
NoCallRunning == op = "none"

Init ==
  /\ op = "none"
  /\ args = NoArgs
  /\ ret = RetNone
  /\ pc = "idle"
  /\ remote = <<>>
  /\ ai = 0
  /\ ki = 0
  /\ publications = <<>>
  /\ queries = <<>>

(***************************************************************************)
(* The pure calls.                                                         *)
(***************************************************************************)
CallLevenshtein ==
  /\ NoCallRunning
  /\ \E s1 \in LevStrings, s2 \in LevStrings :
       /\ op' = "_levenshtein"
       /\ args' = [s1 |-> s1, s2 |-> s2]
       /\ ret' = Ret("int", _levenshtein(s1, s2), <<>>)
  /\ SearchIdle

\* the normalisation of a title given as text: _u8 as _get_bibtex applies it,
\* then the pipeline of search_by_title and _is_target
CallNormalize ==
  /\ NoCallRunning
  /\ \E text \in NormTexts :
       /\ op' = "normalize"
       /\ args' = [text |-> text, title |-> _u8(text)]
       /\ ret' = Ret("str", 0, NormTitle(_u8(text)))
  /\ SearchIdle

CallIsTarget ==
  /\ NoCallRunning
  /\ \E t1 \in Titles, t2 \in Titles, m \in Modes :
       /\ op' = "_is_target"
       /\ args' = [t1 |-> t1, t2 |-> t2, lev |-> m[1], threshold |-> m[2]]
       /\ ret' = _is_target(t1, t2, m[1], m[2])
  /\ SearchIdle

CallSearchByTitle ==
  /\ NoCallRunning
  /\ \E pubs \in PubLists, title \in Titles, m \in Modes :
       /\ op' = "search_by_title"
       /\ args' = [pubs |-> pubs, title |-> title, lev |-> m[1],
                   threshold |-> m[2]]
       /\ ret' = search_by_title(pubs, title, m[1], m[2])
  /\ SearchIdle

(***************************************************************************)
(* DBLPSearch.search, one action per network round.  remote[a][k] is the   *)
(* title text the server returns for the k-th publication key of the a-th  *)
(* author; a publication key is the pair <<a, k>>.                         *)
(***************************************************************************)
Query(url, key) == [url |-> url, key |-> key]

SearchModes ==
  {[has_title |-> FALSE, title |-> <<>>, lev |-> FALSE,
    threshold |-> DefaultThreshold]}
  \cup {[has_title |-> TRUE, title |-> _u8(t), lev |-> m[1], threshold |-> m[2]] :
          t \in SearchTargets, m \in Modes}

\* search(title, lev, threshold) is entered
CallSearch ==
  /\ NoCallRunning
  /\ \E db \in Remotes, a \in SearchModes :
       /\ remote' = db
       /\ args' = a
  /\ op' = "search"
  /\ ret' = Ret("pending", 0, <<>>)
  /\ pc' = "search_author"
  /\ ai' = 0
  /\ ki' = 0
  /\ publications' = <<>>
  /\ queries' = <<>>

\* the author query and _get_authors, which raises when no author is found
SearchAuthor ==
  /\ pc = "search_author"
  /\ queries' = Append(queries, Query("SEARCH_AUTHOR", <<0, 0>>))
  /\ IF Len(remote) = 0
       THEN /\ pc' = "done"
            /\ ret' = RetRaise("SearchError")
            /\ ai' = ai
       ELSE /\ pc' = "authors"
            /\ ret' = ret
            /\ ai' = 1
  /\ UNCHANGED <<op, args, remote, ki, publications>>

\* for a in author_keys: the query for the author's publication keys
GetAuthorPublications ==
  /\ pc = "authors"
  /\ ai <= Len(remote)
  /\ queries' = Append(queries, Query("GET_AUTHOR_PUBLICATIONS", <<ai, 0>>))
  /\ ki' = 1
  /\ pc' = "keys"
  /\ UNCHANGED <<op, args, ret, remote, ai, publications>>

\* for p in publications_keys: the two bibtex queries, then the title test
FetchPublication ==
  /\ pc = "keys"
  /\ ki <= Len(remote[ai])
  /\ queries' = queries \o <<Query("GET_BIBTEX_XML", <<ai, ki>>),
                             Query("GET_BIBTEX_PLAIN", <<ai, ki>>)>>
  /\ LET publication_bibtex == Publication(<<ai, ki>>, _u8(remote[ai][ki]))
         isTarget == _is_target(publication_bibtex.title, args.title,
                                args.lev, args.threshold)
     IN  IF args.has_title
           THEN IF isTarget.kind \notin {"True", "False"}
                  THEN /\ pc' = "done"          \* the exception propagates
                       /\ ret' = isTarget
                       /\ UNCHANGED <<ki, publications>>
                  ELSE IF isTarget.kind = "True"
                    THEN /\ pc' = "done"
                         /\ ret' = Ret("DBLPResult", 0, <<publication_bibtex>>)
                         /\ UNCHANGED <<ki, publications>>
                    ELSE /\ ki' = ki + 1
                         /\ UNCHANGED <<pc, ret, publications>>
           ELSE /\ publications' = Append(publications, publication_bibtex)
                /\ ki' = ki + 1
                /\ UNCHANGED <<pc, ret>>
  /\ UNCHANGED <<op, args, remote, ai>>

\* the inner loop is exhausted: next author
NextAuthor ==
  /\ pc = "keys"
  /\ ki > Len(remote[ai])
  /\ ai' = ai + 1
  /\ pc' = "authors"
  /\ UNCHANGED <<op, args, ret, remote, ki, publications, queries>>

\* both loops are exhausted
SearchReturn ==
  /\ pc = "authors"
  /\ ai > Len(remote)
  /\ ret' = IF args.has_title THEN RetNone
            ELSE Ret("DBLPResult", 0, publications)
  /\ pc' = "done"
  /\ UNCHANGED <<op, args, remote, ai, ki, publications, queries>>

\* the scan-and-decide path of the command line: search() has returned every
\* publication, and search_by_title is called on that result
SearchThenSearchByTitle ==
  /\ op = "search"
  /\ pc = "done"
  /\ ~args.has_title
  /\ ret.kind = "DBLPResult"
  /\ \E t \in SearchTargets, m \in Modes :
       /\ args' = [pubs |-> ret.s, title |-> _u8(t), lev |-> m[1],
                   threshold |-> m[2]]
       /\ ret' = search_by_title(ret.s, _u8(t), m[1], m[2])
  /\ op' = "search().search_by_title"
  /\ UNCHANGED <<pc, remote, ai, ki, publications, queries>>

\* the client takes the result of the finished call
Finish ==
  /\ op /= "none"
  /\ pc \in {"idle", "done"}
  /\ op' = "none"
  /\ args' = NoArgs
  /\ ret' = RetNone
  /\ SearchIdle

Next ==
  \/ Finish
  \/ CallLevenshtein
  \/ CallNormalize
  \/ CallIsTarget
  \/ CallSearchByTitle
  \/ CallSearch
  \/ SearchAuthor
  \/ GetAuthorPublications
  \/ FetchPublication
  \/ NextAuthor
  \/ SearchReturn
  \/ SearchThenSearchByTitle

Spec == Init /\ [][Next]_vars

(***************************************************************************)
(* Reference distances, defined on prefixes a[1..i] and b[1..j].           *)
(***************************************************************************)
SetMin(S) == CHOOSE x \in S : \A y \in S : x <= y

\* unrestricted Damerau-Levenshtein distance (Lowrance-Wagner): a
\* transposition may bracket characters that are deleted before it and
\* inserted after it
RECURSIVE DamerauPrefix(_, _, _, _)
DamerauPrefix(a, b, i, j) ==
  IF i = 0 THEN j
  ELSE IF j = 0 THEN i
  ELSE LET cost == IF a[i] = b[j] THEN 0 ELSE 1
           T == {q \in (1..(i - 1)) \X (1..(j - 1)) :
                   a[q[1]] = b[j] /\ a[i] = b[q[2]]}
       IN  SetMin({DamerauPrefix(a, b, i - 1, j) + 1,
                   DamerauPrefix(a, b, i, j - 1) + 1,
                   DamerauPrefix(a, b, i - 1, j - 1) + cost}
                  \cup {DamerauPrefix(a, b, q[1] - 1, q[2] - 1)
                          + (i - q[1] - 1) + 1 + (j - q[2] - 1) : q \in T})

DamerauLevenshtein(a, b) == DamerauPrefix(a, b, Len(a), Len(b))

\* optimal string alignment distance: no substring is edited more than once
RECURSIVE AlignmentPrefix(_, _, _, _)
AlignmentPrefix(a, b, i, j) ==
  IF i = 0 THEN j
  ELSE IF j = 0 THEN i
  ELSE LET cost == IF a[i] = b[j] THEN 0 ELSE 1
           m == Min3(AlignmentPrefix(a, b, i - 1, j) + 1,
                     AlignmentPrefix(a, b, i, j - 1) + 1,
                     AlignmentPrefix(a, b, i - 1, j - 1) + cost)
       IN  IF i > 1 /\ j > 1 /\ a[i] = b[j - 1] /\ a[i - 1] = b[j]
             THEN Min2(m, AlignmentPrefix(a, b, i - 2, j - 2) + 1)
             ELSE m

OptimalStringAlignment(a, b) == AlignmentPrefix(a, b, Len(a), Len(b))

(***************************************************************************)
(* C1 as stated: _levenshtein(a, b) is the unrestricted Damerau-           *)
(* Levenshtein distance of a and b.                                        *)
(***************************************************************************)
C1_UnrestrictedDistance ==
  op = "_levenshtein" => ret.n = DamerauLevenshtein(args.s1, args.s2)

(***************************************************************************)
(* C1 as amended: _levenshtein(a, b) is the optimal string alignment       *)
(* (restricted Damerau-Levenshtein) distance of a and b, which is never    *)
(* below the unrestricted distance.                                        *)
(***************************************************************************)
C1_RestrictedDistance ==
  op = "_levenshtein" =>
    /\ ret.kind = "int"
    /\ ret.n = OptimalStringAlignment(args.s1, args.s2)
    /\ ret.n >= DamerauLevenshtein(args.s1, args.s2)

\* "ca" -> "abc": 3 by the code, 2 by the unrestricted distance
C1_Witness ==
  /\ op = "_levenshtein"
  /\ args.s1 = <<99, 97>>
  /\ args.s2 = <<97, 98, 99>>
  /\ ret.n = 3
  /\ DamerauLevenshtein(args.s1, args.s2) = 2

(***************************************************************************)
(* C9: _levenshtein is symmetric: the distance returned for (s1, s2) is    *)
(* the distance the function computes for (s2, s1).                        *)
(***************************************************************************)
C9_Symmetric ==
  op = "_levenshtein" => ret.n = _levenshtein(args.s2, args.s1)

\* "ab" against "bac": the transposition rule fires, the lengths differ
C9_Witness ==
  /\ op = "_levenshtein"
  /\ args.s1 = <<97, 98>>
  /\ args.s2 = <<98, 97, 99>>
  /\ ret.n = 2

(***************************************************************************)
(* Vocabulary of the claims about matching.  A candidate whose normalised  *)
(* title is empty has no character error rate.                             *)
(***************************************************************************)
HasCer(candidate) == NormTitle(candidate) /= <<>>

EditDistance(candidate, target) ==
  _levenshtein(NormTitle(candidate), NormTitle(target))

\* CER < 0.01, i.e. 100 * distance < length
BelowCutoff(candidate, target) ==
  /\ HasCer(candidate)
  /\ 100 * EditDistance(candidate, target) < Len(NormTitle(candidate))

\* CER < threshold / 100
BelowThreshold(candidate, target, threshold) ==
  /\ HasCer(candidate)
  /\ 100 * EditDistance(candidate, target) < threshold * Len(NormTitle(candidate))

\* CER of x is strictly smaller than CER of y
SmallerCer(x, y, target) ==
  EditDistance(x, target) * Len(NormTitle(y))
    < EditDistance(y, target) * Len(NormTitle(x))

\* the publications of the server in the order search fetches them
FetchOrder(db) ==
  Flatten([a \in 1..Len(db) |->
             [k \in 1..Len(db[a]) |-> Publication(<<a, k>>, _u8(db[a][k]))]])

\* every query search issues when it stops nowhere
AllQueries(db) ==
  <<Query("SEARCH_AUTHOR", <<0, 0>>)>>
  \o Flatten([a \in 1..Len(db) |->
       <<Query("GET_AUTHOR_PUBLICATIONS", <<a, 0>>)>>
       \o Flatten([k \in 1..Len(db[a]) |->
            <<Query("GET_BIBTEX_XML", <<a, k>>),
              Query("GET_BIBTEX_PLAIN", <<a, k>>)>>])])

\* the queries up to and including the two for publication pkey
QueriesThrough(db, pkey) ==
  LET all == AllQueries(db)
      last == CHOOSE n \in 1..Len(all) : all[n] = Query("GET_BIBTEX_PLAIN", pkey)
  IN  SubSeq(all, 1, last)

SearchDone == op = "search" /\ pc = "done"

(***************************************************************************)
(* C2 as stated: in approximate mode a candidate whose normalised title is *)
(* empty is "no match": _is_target answers False for it, and               *)
(* search_by_title completes without a division fault and never returns    *)
(* such a candidate.                                                       *)
(***************************************************************************)
C2_ZeroLengthIsNoMatch ==
  /\ (op = "_is_target" /\ args.lev /\ ~HasCer(args.t1)) => ret.kind = "False"
  /\ (op = "search_by_title" /\ args.lev) =>
       /\ ret.kind \in {"None", "Publication"}
       /\ ret.kind = "Publication" => HasCer(args.pubs[ret.n].title)
  /\ (SearchDone /\ args.has_title /\ args.lev) => ret.kind /= "ZeroDivisionError"

C4_OnlyLowercaseLetters ==
  op = "normalize" => \A i \in 1..Len(ret.s) : ret.s[i] \in 97..122

(***************************************************************************)
(* C5 as stated: search_by_title with lev=True returns the first           *)
(* publication in list order whose CER is below 0.01, whatever the         *)
(* threshold and whatever follows it in the list.                          *)
(***************************************************************************)
C5_FirstBelowCutoffReturned ==
  (op = "search_by_title" /\ args.lev) =>
    LET E == {i \in 1..Len(args.pubs) :
                BelowCutoff(args.pubs[i].title, args.title)}
    IN  E /= {} => ret = Ret("Publication", SetMin(E), <<>>)

(***************************************************************************)
(* C6 as stated: when no publication has a CER below 0.01, search_by_title *)
(* with lev=True returns a publication of minimum CER if that minimum is   *)
(* strictly below threshold, and None otherwise.                           *)
(***************************************************************************)
C6_BestBelowThreshold ==
  (op = "search_by_title" /\ args.lev) =>
    LET P == args.pubs
        C == {i \in 1..Len(P) : HasCer(P[i].title)}
    IN  (\A i \in 1..Len(P) : ~BelowCutoff(P[i].title, args.title)) =>
          IF \E i \in C : BelowThreshold(P[i].title, args.title, args.threshold)
            THEN /\ ret.kind = "Publication"
                 /\ ret.n \in C
                 /\ \A j \in C : ~SmallerCer(P[j].title, P[ret.n].title, args.title)
            ELSE ret = RetNone

(***************************************************************************)
(* C7: in exact mode _is_target answers True exactly when the two          *)
(* normalised titles are identical, and search_by_title returns the first  *)
(* publication in list order whose normalised title is the normalised      *)
(* target, or None when the list has none.                                 *)
(***************************************************************************)
C7_ExactMode ==
  /\ (op = "_is_target" /\ ~args.lev) =>
       /\ ret.kind \in {"True", "False"}
       /\ ret.kind = "True" <=> NormTitle(args.t1) = NormTitle(args.t2)
  /\ (op = "search_by_title" /\ ~args.lev) =>
       LET M == {i \in 1..Len(args.pubs) :
                   NormTitle(args.pubs[i].title) = NormTitle(args.title)}
       IN  IF M = {} THEN ret = RetNone
           ELSE /\ ret.kind = "Publication"
                /\ ret.n \in M
                /\ \A i \in M : ret.n <= i

\* two publications with different titles both match; the first is returned
C7_Witness ==
  /\ op = "search_by_title"
  /\ ~args.lev
  /\ Len(args.pubs) = 2
  /\ args.pubs[1].title /= args.pubs[2].title
  /\ NormTitle(args.pubs[1].title) = NormTitle(args.title)
  /\ NormTitle(args.pubs[2].title) = NormTitle(args.title)
  /\ NormTitle(args.title) /= <<>>
  /\ ret = Ret("Publication", 1, <<>>)

(***************************************************************************)
(* C8 as stated: an accented letter is reduced to its base letter, so two  *)
(* titles that differ only in diacritics have the same normalised string.  *)
(***************************************************************************)
BaseLetter(cp) == IF cp = 201 THEN 69 ELSE IF cp = 233 THEN 101 ELSE cp

WithoutDiacritics(text) == [i \in 1..Len(text) |-> BaseLetter(text[i])]

C8_DiacriticsDoNotMatter ==
  op = "normalize" =>
    \A other \in NormTexts :
      WithoutDiacritics(other) = WithoutDiacritics(args.text) =>
        NormTitle(_u8(other)) = ret.s

(***************************************************************************)
(* C10 as stated: search with a title examines the publications in fetch   *)
(* order; at the first one that is the target it returns a result holding  *)
(* exactly that publication, having issued no query beyond the two for it; *)
(* when every publication is fetched and none is the target it returns     *)
(* None.                                                                   *)
(***************************************************************************)
IsTheTarget(candidate) ==
  IF args.lev THEN BelowThreshold(candidate, args.title, args.threshold)
  ELSE NormTitle(candidate) = NormTitle(args.title)

C10_StopsAtFirstTarget ==
  (SearchDone /\ args.has_title /\ Len(remote) > 0) =>
    LET F == FetchOrder(remote)
        T == {n \in 1..Len(F) : IsTheTarget(F[n].title)}
    IN  IF T = {}
          THEN ret = RetNone /\ queries = AllQueries(remote)
          ELSE /\ ret = Ret("DBLPResult", 0, <<F[SetMin(T)]>>)
               /\ queries = QueriesThrough(remote, F[SetMin(T)].pkey)

(***************************************************************************)
(* C11: in exact mode the two usage modes agree.  On the same server and   *)
(* for the same target, search(title) returns a result holding exactly the *)
(* first publication in fetch order whose normalised title is the          *)
(* normalised target, and search().search_by_title(title) is handed the    *)
(* publications in fetch order and returns that same publication; when no  *)
(* publication matches, both return None.                                  *)
(***************************************************************************)
ExactMatches(db, title) ==
  {n \in 1..Len(FetchOrder(db)) :
     NormTitle(FetchOrder(db)[n].title) = NormTitle(title)}

C11_ExactModesAgree ==
  /\ (SearchDone /\ args.has_title /\ ~args.lev /\ Len(remote) > 0) =>
       LET M == ExactMatches(remote, args.title) IN
         IF M = {} THEN ret = RetNone
         ELSE ret = Ret("DBLPResult", 0, <<FetchOrder(remote)[SetMin(M)]>>)
  /\ (op = "search().search_by_title" /\ ~args.lev) =>
       LET M == ExactMatches(remote, args.title) IN
         /\ args.pubs = FetchOrder(remote)
         /\ IF M = {} THEN ret = RetNone
            ELSE ret = Ret("Publication", SetMin(M), <<>>)

\* the scan-and-decide path returns the second fetched publication, which
\* belongs to the second author and is written differently from the target
C11_Witness ==
  /\ op = "search().search_by_title"
  /\ ~args.lev
  /\ Len(remote) = 2
  /\ ret = Ret("Publication", 2, <<>>)
  /\ args.pubs[2].pkey = <<2, 1>>
  /\ args.pubs[2].title /= args.title

====
